---- MODULE Spec2Model ----
(***************************************************************************)
(* Model of odin/fund/fund.py: the control loop Fund.trade().              *)
(*                                                                         *)
(* The engine is one sequential thread.  Its collaborators (data handler,  *)
(* execution handler, fund handler, portfolios, strategies) are outside of *)
(* fund.py; a call to one of them is modelled by what the engine can       *)
(* observe of it: the call returns, it may have put an event on the shared *)
(* queue, and it may have cleared the data handler's continue_trading      *)
(* flag.  Collaborator calls are assumed to return normally.               *)
(***************************************************************************)
EXTENDS Naturals, Integers, Sequences, FiniteSets, TLC

\* ------------------------------------------------------------------ bounds
\* Total number of events put on the queue during one run.
MaxEvents == 2
\* Number of request_prices() calls after which the data handler is exhausted.
MaxPeriods == 3
\* Longest portfolios / strategies list of the fund handler.
MaxPorts == 2

\* --------------------------------------------------------------- constants
\* Portfolio identifiers carried by portfolios and by Signal / Fill events.
PortIds == {"a", "b"}

\* Events enumeration (odin.utilities.params.Events) and a tag outside of it.
EventKinds == {"market", "signal", "order", "fill", "rebalance", "management"}
BadKind == "other"

\* Values of the delay parameter: none, and a positive pacing interval.
Delays == {0, 1}

\* Values of the verbosity_level parameter.
VerbosityLevels == {0, 1, 2}

\* verbosity_dict of odin.utilities.params: the threshold of every kind.
verbosity_dict ==
    [k \in EventKinds |->
        CASE k = "market" -> 2
          [] k = "signal" -> 2
          [] k = "order" -> 1
          [] k = "fill" -> 1
          [] k = "rebalance" -> 1
          [] k = "management" -> 1]

\* Verbosities.portfolio.value of odin.utilities.params.
VerbositiesPortfolio == 2

VARIABLES
    pc,                 \* position of trade()
    ports,              \* fh.portfolios, as the sequence of their portfolio_id
    nstrats,            \* Len(fh.strategies)
    delay,              \* self.delay
    verbosity_level,    \* self.verbosity_level
    port_dict,          \* registry: portfolio_id -> index into ports
    events,             \* dh.events, the shared queue
    continue_trading,   \* dh.continue_trading
    reported,           \* dh.continue_trading as the last request_prices() left it
    e,                  \* the event being dispatched
    i,                  \* position of the loop over zip(strats, ports)
    j,                  \* position of the loop over ports (post-period hooks)
    err,                \* the exception that left trade(), if any
    \* ---- observation (history) variables, never read by the engine
    enq,                \* every event put on the queue, in order
    disp,               \* every event taken from the queue, in order
    handled,            \* <<event id, dispatch branch>> of every branch entered
    calls,              \* collaborator calls since the last dequeue / phase start
    emitted,            \* everything printed
    nreq,               \* number of request_prices() calls
    nupd,               \* number of data_handler.update() calls
    nsleep,             \* number of sleep(delay) calls
    nread,              \* number of reads of dh.continue_trading
    pmes,               \* process_market_event calls received, per portfolio
    gens                \* generate_signals calls received, per strategy

vars == <<pc, ports, nstrats, delay, verbosity_level, port_dict, events,
          continue_trading, reported, e, i, j, err, enq, disp, handled, calls, emitted,
          nreq, nupd, nsleep, nread, pmes, gens>>

config == <<ports, nstrats, delay, verbosity_level>>
counters == <<nreq, nupd, nsleep>>
received == <<pmes, gens>>

NoEvent == [id |-> 0, kind |-> "none", pid |-> "none", per |-> 0, ph |-> "none"]

\* What a collaborator may put on the queue: any kind, with a portfolio_id on
\* Signal and Fill events.
NewEvents ==
    {[kind |-> k, pid |-> "none"] : k \in (EventKinds \cup {BadKind}) \ {"signal", "fill"}}
    \cup {[kind |-> k, pid |-> p] : k \in {"signal", "fill"}, p \in PortIds}

\* Sequences over S of length 0..n.
SeqUpTo(S, n) == UNION {[1..m -> S] : m \in 0..n}

\* ------------------------------------------------------------ the queue
\* events.put(x)
QueuePut(q, x) == Append(q, x)
\* events.get(False): the event handed out
\* Faulty variant: a LIFO get.
QueueGetLast(q) == q[Len(q)]
QueueGet(q) == Head(q)
\* events.get(False): what stays on the queue
\* Faulty variant: get() that leaves the event on the queue.
QueuePeek(q) == q
QueueRest(q) == Tail(q)
\* events.empty()
QueueEmpty(q) == q = <<>>

\* port_dict = {p.portfolio_handler.portfolio_id: p for p in ports}: a later
\* portfolio with the same id replaces an earlier one.
\* Faulty variant: the first portfolio with an id keeps it.
BuildPortDictFirst(ps) ==
    [id \in {ps[k] : k \in 1..Len(ps)} |->
        CHOOSE k \in 1..Len(ps) : ps[k] = id /\ \A m \in 1..(k-1) : ps[m] # id]
BuildPortDict(ps) ==
    [id \in {ps[k] : k \in 1..Len(ps)} |->
        CHOOSE k \in 1..Len(ps) : ps[k] = id /\ \A m \in (k+1)..Len(ps) : ps[m] # id]

\* zip(strats, ports) stops at the shorter list.
Min(a, b) == IF a <= b THEN a ELSE b
NPairs == Min(nstrats, Len(ports))

Init ==
    /\ pc = "start"
    /\ ports \in SeqUpTo(PortIds, MaxPorts)
    /\ nstrats \in 0..MaxPorts
    /\ delay \in Delays
    /\ verbosity_level \in VerbosityLevels
    /\ port_dict = <<>>
    /\ events = <<>>
    /\ continue_trading = TRUE
    /\ reported = TRUE
    /\ e = NoEvent
    /\ i = 0
    /\ j = 0
    /\ err = "none"
    /\ enq = <<>>
    /\ disp = <<>>
    /\ handled = <<>>
    /\ calls = <<>>
    /\ emitted = <<>>
    /\ nreq = 0
    /\ nupd = 0
    /\ nsleep = 0
    /\ nread = 0
    /\ pmes = [k \in 1..Len(ports) |-> 0]
    /\ gens = [k \in 1..nstrats |-> 0]

\* ------------------------------------------------- a collaborator call
\* The event a call may enqueue (NoEvent: none), within the run's budget.
Offers == IF Len(enq) < MaxEvents THEN NewEvents \cup {NoEvent} ELSE {NoEvent}

\* The event as it sits on the queue: numbered, and stamped with the period
\* and the phase ("request", "drain", "post", "update") that produced it.
Stamp(ne, per, ph) ==
    [id |-> Len(enq) + 1, kind |-> ne.kind, pid |-> ne.pid, per |-> per, ph |-> ph]

\* Effect of a collaborator call on the queue.
Put(ne, per, ph) ==
    IF ne = NoEvent
    THEN UNCHANGED <<events, enq>>
    ELSE /\ events' = QueuePut(events, Stamp(ne, per, ph))
         /\ enq' = Append(enq, Stamp(ne, per, ph))

\* A call made while the engine is inside its loop: logged, may enqueue, may
\* clear the continuation flag.
Collab(call, ph) ==
    /\ calls' = Append(calls, call)
    /\ \E ne \in Offers : Put(ne, nreq, ph)
    /\ \E ct \in {continue_trading, FALSE} : continue_trading' = ct

\* ------------------------------------------------------------- trade()
\* l.57-62: local names and the registry.
BuildRegistry ==
    /\ pc = "start"
    /\ port_dict' = BuildPortDict(ports)
    /\ pc' = "request"
    /\ UNCHANGED <<config, nread, received, reported, events,
                   continue_trading, e, i, j, err,
                   enq, disp, handled, calls, emitted, counters>>

\* l.68: dh.request_prices()
RequestPrices ==
    /\ pc = "request"
    /\ nreq' = nreq + 1
    /\ calls' = <<<<"request_prices", "dh", 0>>>>
    /\ \E ne \in Offers : Put(ne, nreq + 1, "request")
    /\ \E ct \in (IF nreq + 1 < MaxPeriods THEN BOOLEAN ELSE {FALSE}) :
        continue_trading' = ct /\ reported' = ct
    /\ pc' = "check"
    /\ UNCHANGED <<config, nread, received, port_dict, e, i, j, err, disp,
                   handled, emitted,
                   nupd, nsleep>>

\* l.71: the test that leaves the outer loop.
\* Faulty variant: the continuation flag is ignored.
StopsNever(ct) == FALSE
\* Faulty variant: the loop is left whatever the flag says.
StopsAlways(ct) == TRUE
Stops(ct) == ~ct

\* l.71-72: if not dh.continue_trading: break
CheckContinue ==
    /\ pc = "check"
    /\ pc' = IF Stops(continue_trading) THEN "done" ELSE "drain"
    /\ nread' = nread + 1
    /\ UNCHANGED <<config, received, reported, port_dict, events,
                   continue_trading, e, i, j, err,
                   enq, disp, handled, calls, emitted, counters>>

\* l.77-79: the queue is not empty; take the next event.
Dequeue ==
    /\ pc = "drain"
    /\ ~QueueEmpty(events)
    /\ e' = QueueGet(events)
    /\ events' = QueueRest(events)
    /\ disp' = Append(disp, QueueGet(events))
    /\ calls' = <<>>
    /\ pc' = "dispatch"
    /\ UNCHANGED <<config, nread, received, reported, port_dict,
                   continue_trading, i, j, err, enq,
                   handled, emitted, counters>>

\* l.77, l.108: the queue is empty; the while's else clause starts.
\* Faulty variant: the drain loop gives up with one event still queued.
DrainExitAtMostOne(q) == Len(q) <= 1
\* Faulty variant: a blocking get: the loop waits on the empty queue.
DrainExitNever(q) == FALSE
\* Faulty variant: the drain loop also gives up when the flag is cleared.
DrainExitOrStopped(q) == QueueEmpty(q) \/ ~continue_trading
DrainExit(q) == QueueEmpty(q)

\* Faulty variant: the else clause of the while is skipped.
EndDrainNoElse ==
    /\ pc = "drain"
    /\ DrainExit(events)
    /\ pc' = "delay"
    /\ UNCHANGED <<config, j, calls, nread, received, reported, port_dict,
                   events, continue_trading, e, i, err,
                   enq, disp, handled, emitted, counters>>

EndDrain ==
    /\ pc = "drain"
    /\ DrainExit(events)
    /\ pc' = "post"
    /\ j' = 1
    /\ calls' = <<>>
    /\ UNCHANGED <<config, nread, received, reported, port_dict, events,
                   continue_trading, e, i, err,
                   enq, disp, handled, emitted, counters>>

\* l.81-102: the branch of the if / elif chain taken for an event type.
\* Faulty variant: the last elif written as a plain else.
BranchLastAsElse(k) == IF k \in EventKinds THEN k ELSE "management"
\* Faulty variant: Signal events sent down the Fill branch.
BranchSignalAsFill(k) == IF k \in EventKinds THEN (IF k = "signal" THEN "fill" ELSE k) ELSE "raise"
Branch(k) ==
    IF k = "market" THEN "market"
    ELSE IF k = "signal" THEN "signal"
    ELSE IF k = "order" THEN "order"
    ELSE IF k = "fill" THEN "fill"
    ELSE IF k = "rebalance" THEN "rebalance"
    ELSE IF k = "management" THEN "management"
    ELSE "raise"

\* port_dict[e.portfolio_id]: the index of the portfolio, 0 for a KeyError.
\* Faulty variant: an unknown id falls back to the first portfolio.
LookupOrFirst(d, pid) == IF pid \in DOMAIN d THEN d[pid] ELSE 1
Lookup(d, pid) == IF pid \in DOMAIN d THEN d[pid] ELSE 0

\* l.85, l.111: a for loop over n items is over once position k has passed n.
\* Faulty variant: the loop stops one item short.
LoopDoneEarly(k, n) == k >= n
LoopDone(k, n) == k > n

\* l.81, l.85: the Market branch starts the loop over zip(strats, ports).
DispatchMarket ==
    /\ pc = "dispatch"
    /\ Branch(e.kind) = "market"
    /\ handled' = Append(handled, <<e.id, "market">>)
    /\ i' = 1
    /\ pc' = "pair_port"
    /\ UNCHANGED <<config, nread, received, reported, port_dict, events,
                   continue_trading, e, j, err, enq,
                   disp, calls, emitted, counters>>

\* l.86-87: the two calls of the loop body, for the pair at position k.
\* Faulty variant: the strategy is invoked where the portfolio should be updated.
StrategyFirst(k) == <<"generate_signals", "strat", k>>
PortfolioCall(k) == <<"process_market_event", "port", k>>
StrategyCall(k) == <<"generate_signals", "strat", k>>

\* l.86: p.process_market_event(e)
PortfolioMarket ==
    /\ pc = "pair_port"
    /\ i <= NPairs
    /\ ~LoopDone(i, NPairs)
    /\ Collab(PortfolioCall(i), "drain")
    /\ pmes' = [pmes EXCEPT ![i] = @ + 1]
    /\ pc' = "pair_strat"
    /\ UNCHANGED <<config, nread, gens, reported, port_dict, e, i, j, err,
                   disp, handled, emitted,
                   counters>>

\* l.87: s.generate_signals()
GenerateSignals ==
    /\ pc = "pair_strat"
    /\ Collab(StrategyCall(i), "drain")
    /\ gens' = [gens EXCEPT ![i] = @ + 1]
    /\ i' = i + 1
    /\ pc' = "pair_port"
    /\ UNCHANGED <<config, nread, pmes, reported, port_dict, e, j, err, disp,
                   handled, emitted,
                   counters>>

\* l.90: self.fund_handler.process_market_event(e), after the loop.
FundMarket ==
    /\ pc = "pair_port"
    /\ LoopDone(i, NPairs)
    /\ Collab(<<"process_market_event", "fh", 0>>, "drain")
    /\ pc' = "emit"
    /\ UNCHANGED <<config, nread, received, reported, port_dict, e, i, j, err,
                   disp, handled, emitted,
                   counters>>

\* l.91-92: port_dict[e.portfolio_id].process_signal_event(e)
DispatchSignal ==
    /\ pc = "dispatch"
    /\ Branch(e.kind) = "signal"
    /\ IF Lookup(port_dict, e.pid) = 0
       THEN /\ pc' = "error"
            /\ err' = "KeyError"
            /\ UNCHANGED <<events, continue_trading, enq, handled, calls>>
       ELSE /\ handled' = Append(handled, <<e.id, "signal">>)
            /\ Collab(<<"process_signal_event", "port", Lookup(port_dict, e.pid)>>, "drain")
            /\ pc' = "emit"
            /\ UNCHANGED err
    /\ UNCHANGED <<config, nread, received, reported, port_dict, e, i, j,
                   disp, emitted, counters>>

\* l.93-94: eh.execute_order(e)
DispatchOrder ==
    /\ pc = "dispatch"
    /\ Branch(e.kind) = "order"
    /\ handled' = Append(handled, <<e.id, "order">>)
    /\ Collab(<<"execute_order", "eh", 0>>, "drain")
    /\ pc' = "emit"
    /\ UNCHANGED <<config, nread, received, reported, port_dict, e, i, j, err,
                   disp, emitted, counters>>

\* l.95-96: port_dict[e.portfolio_id].process_fill_event(e)
DispatchFill ==
    /\ pc = "dispatch"
    /\ Branch(e.kind) = "fill"
    /\ IF Lookup(port_dict, e.pid) = 0
       THEN /\ pc' = "error"
            /\ err' = "KeyError"
            /\ UNCHANGED <<events, continue_trading, enq, handled, calls>>
       ELSE /\ handled' = Append(handled, <<e.id, "fill">>)
            /\ Collab(<<"process_fill_event", "port", Lookup(port_dict, e.pid)>>, "drain")
            /\ pc' = "emit"
            /\ UNCHANGED err
    /\ UNCHANGED <<config, nread, received, reported, port_dict, e, i, j,
                   disp, emitted, counters>>

\* l.97-98: self.fund_handler.rebalance()
DispatchRebalance ==
    /\ pc = "dispatch"
    /\ Branch(e.kind) = "rebalance"
    /\ handled' = Append(handled, <<e.id, "rebalance">>)
    /\ Collab(<<"rebalance", "fh", 0>>, "drain")
    /\ pc' = "emit"
    /\ UNCHANGED <<config, nread, received, reported, port_dict, e, i, j, err,
                   disp, emitted, counters>>

\* l.99-100: self.fund_handler.manage()
DispatchManagement ==
    /\ pc = "dispatch"
    /\ Branch(e.kind) = "management"
    /\ handled' = Append(handled, <<e.id, "management">>)
    /\ Collab(<<"manage", "fh", 0>>, "drain")
    /\ pc' = "emit"
    /\ UNCHANGED <<config, nread, received, reported, port_dict, e, i, j, err,
                   disp, emitted, counters>>

\* l.101-102: raise ValueError("Invalid event type: ...")
DispatchInvalid ==
    /\ pc = "dispatch"
    /\ Branch(e.kind) = "raise"
    /\ pc' = "error"
    /\ err' = "ValueError"
    /\ UNCHANGED <<config, nread, received, reported, port_dict, events,
                   continue_trading, e, i, j, enq,
                   disp, handled, calls, emitted, counters>>

\* l.105, l.113: the verbosity test.
\* Faulty variant: a strict comparison.
GateStrict(threshold, level) == threshold < level
Gate(threshold, level) == threshold <= level

\* l.105-106: if verbosity_dict[e_type] <= self.verbosity_level: print(e)
EmitEvent ==
    /\ pc = "emit"
    /\ emitted' = IF Gate(verbosity_dict[e.kind], verbosity_level)
                  THEN Append(emitted, <<"event", e.id>>)
                  ELSE emitted
    /\ pc' = "drain"
    /\ UNCHANGED <<config, nread, received, reported, port_dict, events,
                   continue_trading, e, i, j, err,
                   enq, disp, handled, calls, counters>>

\* l.111-112: the hook call for the portfolio at position k of ports.
\* Faulty variant: the portfolios are visited in reverse order.
PostCallReversed(k) == <<"process_post_events", "port", Len(ports) + 1 - k>>
PostCall(k) == <<"process_post_events", "port", k>>

\* l.111-114: p.process_post_events(), and the state snapshot.
PostEvents ==
    /\ pc = "post"
    /\ j <= Len(ports)
    /\ ~LoopDone(j, Len(ports))
    /\ Collab(PostCall(j), "post")
    /\ emitted' = IF Gate(VerbositiesPortfolio, verbosity_level)
                  THEN Append(emitted, <<"state", j>>)
                  ELSE emitted
    /\ j' = j + 1
    /\ UNCHANGED <<pc, config, nread, received, reported, port_dict, e, i,
                   err, disp, handled, counters>>

\* l.117: dh.update(), after the loop over ports.
Update ==
    /\ pc = "post"
    /\ LoopDone(j, Len(ports))
    /\ Collab(<<"update", "dh", 0>>, "update")
    /\ nupd' = nupd + 1
    /\ pc' = "delay"
    /\ UNCHANGED <<config, nread, received, reported, port_dict, e, i, j, err,
                   disp, handled, emitted,
                   nreq, nsleep>>

\* l.120: the test that guards sleep(self.delay).
\* Faulty variant: sleep also for delay = 0.
SleepsAlways(d) == d >= 0
Sleeps(d) == d > 0

\* l.120-121: if self.delay > 0: sleep(self.delay); back to the top of the loop.
Delay ==
    /\ pc = "delay"
    /\ nsleep' = IF Sleeps(delay) THEN nsleep + 1 ELSE nsleep
    /\ pc' = "request"
    /\ UNCHANGED <<config, nread, received, reported, port_dict, events,
                   continue_trading, e, i, j, err,
                   enq, disp, handled, calls, emitted, nreq, nupd>>

Next ==
    \/ BuildRegistry
    \/ RequestPrices
    \/ CheckContinue
    \/ Dequeue
    \/ EndDrain
    \/ DispatchMarket
    \/ PortfolioMarket
    \/ GenerateSignals
    \/ FundMarket
    \/ DispatchSignal
    \/ DispatchOrder
    \/ DispatchFill
    \/ DispatchRebalance
    \/ DispatchManagement
    \/ DispatchInvalid
    \/ EmitEvent
    \/ PostEvents
    \/ Update
    \/ Delay

Spec == Init /\ [][Next]_vars

\* trade() is one thread that is never suspended for good: sleep(delay)
\* returns and, by assumption, so does every collaborator call; whenever a
\* next statement exists it is eventually executed.
FairSpec == Spec /\ WF_vars(Next)

\* ---------------------------------------------------------------- claims
Range(f) == {f[k] : k \in DOMAIN f}
IsPrefix(s, t) == Len(s) <= Len(t) /\ \A k \in 1..Len(s) : s[k] = t[k]

\* The calls of the loop over the first n (Strategy, Portfolio) pairs.
PairCalls(n) ==
    [k \in 1..(2 * n) |->
        IF k % 2 = 1
        THEN <<"process_market_event", "port", (k + 1) \div 2>>
        ELSE <<"generate_signals", "strat", k \div 2>>]

FundMarketCall == <<"process_market_event", "fh", 0>>

\* The collaborator method a kind is dispatched to.
HandlerName(k) ==
    CASE k = "market" -> "process_market_event"
      [] k = "signal" -> "process_signal_event"
      [] k = "order" -> "execute_order"
      [] k = "fill" -> "process_fill_event"
      [] k = "rebalance" -> "rebalance"
      [] k = "management" -> "manage"
      [] OTHER -> "none"

\* C1: events are dispatched in strict FIFO order: the sequence of dispatched
\* events is always a prefix of the sequence of enqueued events, whatever their
\* kinds, and what is still queued is the rest of it, in order.
C1_Fifo == IsPrefix(disp, enq) /\ enq = disp \o events

\* C1 witness: two events of different kinds that sat on the queue together
\* (one left by a post-period hook, one added by the next request_prices)
\* have both been dispatched.
C1_Witness ==
    /\ Len(disp) = 2
    /\ disp[1].kind # disp[2].kind
    /\ disp[1].ph = "post"
    /\ disp[2].ph = "request"

\* C2: event-chain settlement: when the post-period hooks start the queue is
\* empty, and during the hooks and update() of a period every event that was
\* enqueued while that period's queue was being drained has been dispatched.
C2_Settlement ==
    /\ (pc = "post" /\ j = 1 /\ calls = <<>>) => events = <<>>
    /\ pc \in {"post", "delay"} =>
          \A k \in 1..Len(enq) :
              (enq[k].per = nreq /\ enq[k].ph = "drain") =>
                  /\ k <= Len(disp)
                  /\ <<enq[k].id, enq[k].kind>> \in Range(handled)

\* C2 witness: an Order whose handler enqueued a Fill during the drain; both
\* are settled when the post-period hooks run.
C2_Witness ==
    /\ pc = "post"
    /\ Len(enq) = 2
    /\ enq[1].kind = "order"
    /\ enq[2].kind = "fill"
    /\ enq[2].ph = "drain"
    /\ enq[2].per = nreq
    /\ Len(disp) = 2

\* C3: during the dispatch of a Market event the pairs are visited in list
\* order, and for each pair the Portfolio's process_market_event comes
\* strictly before the Strategy's generate_signals: pair i is finished before
\* pair i+1 is started.
C3_PortfolioBeforeStrategy ==
    /\ pc = "pair_port" => calls = PairCalls(i - 1)
    /\ pc = "pair_strat" =>
          calls = PairCalls(i - 1) \o <<<<"process_market_event", "port", i>>>>
    /\ \A k \in 1..Len(calls) :
          calls[k][1] = "generate_signals" =>
              /\ k > 1
              /\ calls[k - 1] = <<"process_market_event", "port", calls[k][3]>>

\* C3 witness: both pairs of a two-pair fund have been handled for a Market
\* event.
C3_Witness ==
    /\ pc = "pair_port"
    /\ e.kind = "market"
    /\ NPairs = 2
    /\ i = 3

\* C4: fund_handler.process_market_event is called exactly once per Market
\* event, after every pair has had process_market_event and generate_signals,
\* and never during the dispatch of an event of another kind.
C4_FundHandlerLast ==
    /\ (pc = "emit" /\ e.kind = "market") =>
          calls = PairCalls(NPairs) \o <<FundMarketCall>>
    /\ FundMarketCall \in Range(calls) =>
          /\ e.kind = "market"
          /\ calls = PairCalls(NPairs) \o <<FundMarketCall>>

\* C4 witness: a Market event of a two-pair fund has been delivered to the
\* fund handler.
C4_Witness ==
    /\ pc = "emit"
    /\ e.kind = "market"
    /\ NPairs = 2
    /\ FundMarketCall \in Range(calls)

\* The event in hand is a Signal or Fill whose portfolio_id is not a key of
\* the registry, and its dispatch step has been taken.
UnknownPortfolio ==
    /\ pc # "dispatch"
    /\ e.kind \in {"signal", "fill"}
    /\ e.pid \notin DOMAIN port_dict

\* C5: a Signal or Fill event with an unknown portfolio_id fails the run at
\* once: trade() is left by the KeyError, no collaborator is called after the
\* dequeue, the event is neither handled nor emitted, the period's
\* post-period hooks and update() do not run, and nothing follows.
C5_UnknownPortfolioFails ==
    /\ UnknownPortfolio =>
          /\ pc = "error"
          /\ err = "KeyError"
          /\ calls = <<>>
          /\ <<e.id, e.kind>> \notin Range(handled)
          /\ <<"event", e.id>> \notin Range(emitted)
          /\ nupd = nreq - 1
          /\ ~ENABLED Next
    /\ err = "KeyError" => UnknownPortfolio

\* C5 witness: a run that failed on a Fill event for an unregistered
\* portfolio, after an earlier event was dispatched normally.
C5_Witness ==
    /\ pc = "error"
    /\ err = "KeyError"
    /\ e.kind = "fill"
    /\ Len(disp) = 2
    /\ Len(ports) > 0

\* The event in hand has a kind outside of the six, and its dispatch step
\* has been taken.
InvalidKind ==
    /\ pc # "dispatch"
    /\ e # NoEvent
    /\ e.kind \notin EventKinds

\* C6: an event of an unknown kind fails trade() with the invalid-kind
\* error: no handler is called for it, it is not emitted, no later event is
\* dispatched, and no post-period hook, update(), delay or request_prices()
\* follows.
C6_InvalidKindFails ==
    /\ InvalidKind =>
          /\ pc = "error"
          /\ err = "ValueError"
          /\ calls = <<>>
          /\ e = disp[Len(disp)]
          /\ Len(handled) = Len(disp) - 1
          /\ <<"event", e.id>> \notin Range(emitted)
          /\ nupd = nreq - 1
          /\ ~ENABLED Next
    /\ err = "ValueError" => InvalidKind

\* C6 witness: the invalid event was dequeued while another event was still
\* queued behind it; that event stays undispatched.
C6_Witness ==
    /\ pc = "error"
    /\ err = "ValueError"
    /\ events # <<>>

\* The first request_prices() left continue_trading false, and the engine has
\* acted on it.
StoppedAtFirst == nreq = 1 /\ ~reported /\ pc # "check"

\* What trade() has not done when it stops at once.
NothingRun ==
    /\ pc = "done"
    /\ disp = <<>>
    /\ handled = <<>>
    /\ emitted = <<>>
    /\ calls = <<<<"request_prices", "dh", 0>>>>
    /\ nupd = 0
    /\ nsleep = 0

\* C7 as stated: if the first request_prices() reports continue_trading
\* false, trade() dispatches nothing, runs no post-period hook, update() or
\* delay, and returns with an empty queue.
C7_Original == StoppedAtFirst => (NothingRun /\ events = <<>>)

\* C7 amended: if the first request_prices() reports continue_trading false,
\* trade() dispatches nothing, runs no post-period hook, update() or delay,
\* and returns at once; the queue is left as request_prices() left it (it
\* still holds every event request_prices() put on it), so it is empty only
\* if that call enqueued nothing.
C7_StopsAtOnce ==
    StoppedAtFirst =>
        /\ NothingRun
        /\ events = enq
        /\ \A k \in 1..Len(enq) : enq[k].ph = "request" /\ enq[k].per = 1
        /\ ~ENABLED Next

\* C7 witness: trade() has returned after the first request_prices(), which
\* reported no more data and left a Market event on the queue.
C7_Witness ==
    /\ StoppedAtFirst
    /\ pc = "done"
    /\ Len(events) = 1
    /\ events[1].kind = "market"

\* No event is dequeued or handled twice, every handled event was dequeued,
\* and every enqueued event is either dispatched or still queued.
AtMostOnce ==
    /\ \A a, b \in 1..Len(disp) : disp[a].id = disp[b].id => a = b
    /\ \A a, b \in 1..Len(handled) : handled[a][1] = handled[b][1] => a = b
    /\ \A a \in 1..Len(handled) : \E b \in 1..Len(disp) : disp[b].id = handled[a][1]
    /\ Len(disp) + Len(events) = Len(enq)
    /\ \A k \in 1..Len(enq) :
          (\E a \in 1..Len(disp) : disp[a] = enq[k])
              # (\E a \in 1..Len(events) : events[a] = enq[k])

\* Put on the queue after the last drain of the run ended: by a post-period
\* hook or update() of the last completed period, or by the final
\* request_prices().
AfterLastDrain(x) ==
    \/ x.per = nreq /\ x.ph = "request"
    \/ x.per = nreq - 1 /\ x.ph \in {"post", "update"}

\* C8 as stated: every enqueued event is dequeued once and handled once, and
\* none is left undispatched when trade() returns normally.
C8_Original ==
    /\ AtMostOnce
    /\ pc = "done" =>
          /\ events = <<>>
          /\ \A k \in 1..Len(enq) : <<enq[k].id, enq[k].kind>> \in Range(handled)

\* C8 amended: no event is dequeued or handled more than once, and when
\* trade() returns normally every event has been dequeued and handled exactly
\* once except those put on the queue after the last drain ended (by a
\* post-period hook or update() of the last completed period, or by the final
\* request_prices()): these are left on the queue, undispatched.
C8_ExactlyOnce ==
    /\ AtMostOnce
    /\ pc = "done" =>
          \A k \in 1..Len(enq) :
              IF AfterLastDrain(enq[k])
              THEN k > Len(disp) /\ events[k - Len(disp)] = enq[k]
              ELSE /\ k <= Len(disp)
                   /\ disp[k] = enq[k]
                   /\ handled[k] = <<enq[k].id, enq[k].kind>>

\* C8 witness: trade() has returned normally; one event was dispatched and
\* one, enqueued by a post-period hook, is left on the queue.
C8_Witness ==
    /\ pc = "done"
    /\ Len(disp) = 1
    /\ Len(events) = 1
    /\ events[1].ph = "post"

\* C9: no silent drop: every event taken from the queue has run exactly the
\* dispatch branch of its kind (and that branch's handler has been called),
\* or has ended the run with an error; the loop never goes on without either.
C9_NoSilentDrop ==
    /\ Len(handled) =
          (IF pc \in {"dispatch", "error"} THEN Len(disp) - 1 ELSE Len(disp))
    /\ \A k \in 1..Len(handled) : handled[k] = <<disp[k].id, disp[k].kind>>
    /\ \A k \in 1..Len(disp) : disp[k].kind \in EventKinds \/ k = Len(disp)
    /\ pc = "error" => (err \in {"KeyError", "ValueError"} /\ e = disp[Len(disp)])
    /\ pc = "emit" =>
          /\ calls # <<>>
          /\ calls[Len(calls)][1] = HandlerName(e.kind)
          /\ e = disp[Len(disp)]

\* C9 witness: a Rebalance event has been dispatched to rebalance() after a
\* Signal event was dispatched to process_signal_event.
C9_Witness ==
    /\ pc = "emit"
    /\ e.kind = "rebalance"
    /\ handled = <<<<1, "signal">>, <<2, "rebalance">>>>

\* C10: with delay > 0 there is exactly one suspension per completed period,
\* after that period's post-period hooks and update() and before the next
\* request_prices(); with delay = 0 there is none; the terminating iteration
\* does not suspend.
C10_Pacing ==
    /\ delay = 0 => nsleep = 0
    /\ delay > 0 => nsleep = (IF pc = "delay" THEN nupd - 1 ELSE nupd)
    /\ pc = "delay" => (nupd = nreq /\ LoopDone(j, Len(ports)))
    /\ pc \in {"check", "drain", "dispatch", "pair_port", "pair_strat", "emit",
                "post", "done", "error"} => nupd = nreq - 1
    /\ pc = "request" => nupd = nreq
    /\ pc = "done" => nsleep <= nreq - 1

\* C10 witness: a run with a positive delay has returned after two completed
\* periods and two suspensions.
C10_Witness ==
    /\ pc = "done"
    /\ delay > 0
    /\ nreq = 3
    /\ nsleep = 2

\* Number of times x was printed.
Printed(x) == Cardinality({k \in 1..Len(emitted) : emitted[k] = x})

\* The dispatch of the last entry of handled is still going on.
InDispatch == pc \in {"pair_port", "pair_strat", "emit"}

\* Number of process_post_events() calls portfolio p has had so far.
Hooks(p) == nupd + (IF pc = "post" /\ p < j THEN 1 ELSE 0)

\* C11: verbosity gating: an event whose dispatch succeeded is emitted (once)
\* if and only if the threshold of its kind is <= verbosity_level, nothing
\* else is emitted as an event, and every post-period hook emits a portfolio
\* state snapshot if and only if the portfolio threshold is <= verbosity_level.
C11_VerbosityGating ==
    /\ \A k \in 1..Len(handled) :
          Printed(<<"event", handled[k][1]>>) =
              (IF /\ ~(k = Len(handled) /\ InDispatch)
                  /\ verbosity_dict[handled[k][2]] <= verbosity_level
               THEN 1 ELSE 0)
    /\ \A x \in Range(emitted) :
          /\ x[1] = "event" => \E k \in 1..Len(handled) : handled[k][1] = x[2]
          /\ x[1] = "state" => x[2] \in 1..Len(ports)
    /\ \A p \in 1..Len(ports) :
          Printed(<<"state", p>>) =
              (IF VerbositiesPortfolio <= verbosity_level THEN Hooks(p) ELSE 0)

\* C11 witness: at verbosity_level 1 a Market event (threshold 2) was
\* dispatched without emission and an Order event (threshold 1) was emitted.
C11_Witness ==
    /\ verbosity_level = 1
    /\ pc = "drain"
    /\ handled = <<<<1, "market">>, <<2, "order">>>>
    /\ emitted = <<<<"event", 2>>>>

\* C12: trade() returns normally only when the most recent request_prices()
\* left continue_trading false (and that call is the last thing it did); an
\* error leaves trade() for good: it is never swallowed, and the loop neither
\* goes on nor returns normally after it; in every other state the loop goes
\* on.
C12_ReturnsOnlyOnExhaustion ==
    /\ pc = "done" =>
          /\ ~reported
          /\ ~continue_trading
          /\ err = "none"
          /\ calls = <<<<"request_prices", "dh", 0>>>>
          /\ nread = nreq
          /\ ~ENABLED Next
    /\ (err # "none") <=> (pc = "error")
    /\ pc = "error" => ~ENABLED Next
    /\ pc \notin {"done", "error"} => ENABLED Next

\* C12 witness: trade() has returned after two periods in which it
\* dispatched events, on the third request_prices().
C12_Witness ==
    /\ pc = "done"
    /\ nreq = 3
    /\ Len(disp) = 2
    /\ disp[2].per = 2

\* The hook calls on the first n portfolios, in list order.
PostCalls(n) == [k \in 1..n |-> <<"process_post_events", "port", k>>]

\* C13: in a period that drains without error and is not the terminating one,
\* process_post_events() is called exactly once on each Portfolio, in list
\* order, starting on an empty queue; after the last hook update() is called
\* exactly once, before the pacing delay and the next request_prices().
C13_PostPeriodHooks ==
    /\ pc = "post" =>
          /\ j \in 1..(Len(ports) + 1)
          /\ calls = PostCalls(j - 1)
          /\ nupd = nreq - 1
          /\ j = 1 => events = <<>>
    /\ pc = "delay" =>
          /\ calls = PostCalls(Len(ports)) \o <<<<"update", "dh", 0>>>>
          /\ nupd = nreq
          /\ nsleep = (IF delay > 0 THEN nupd - 1 ELSE 0)
    /\ pc = "request" => (nupd = nreq /\ nread = nreq)
    /\ pc = "done" => nupd = nreq - 1
    /\ \A k \in 1..Len(calls) :
          calls[k][1] \in {"process_post_events", "update"} =>
              pc \in {"post", "delay", "request"}

\* C13 witness: the second period of a two-portfolio fund has had both hooks
\* and its update().
C13_Witness ==
    /\ pc = "delay"
    /\ Len(ports) = 2
    /\ nupd = 2
    /\ Len(calls) = 3

\* continue_trading was true when request_prices() returned and has been
\* cleared since, in the course of the period.
Cleared == reported /\ ~continue_trading

\* Every event enqueued by this period's request_prices() or during its
\* drain has run its dispatch branch.
PeriodDrained ==
    \A k \in 1..Len(enq) :
        (enq[k].per = nreq /\ enq[k].ph \in {"request", "drain"}) =>
            <<enq[k].id, enq[k].kind>> \in Range(handled)

\* C14: the continuation flag is read once per period, right after
\* request_prices(); when it is cleared in the course of a period the engine
\* does not stop there: it still dispatches every queued event, runs the
\* post-period hooks, update() and the delay, and only a later
\* request_prices() is followed by the stop.
C14_NoMidPeriodCancel ==
    /\ nread = (IF pc = "check" THEN nreq - 1 ELSE nreq)
    /\ Cleared =>
          /\ pc \notin {"done", "check"}
          /\ pc # "error" => ENABLED Next
          /\ pc \in {"post", "delay", "request"} => PeriodDrained
          /\ pc \in {"delay", "request"} =>
                /\ calls = PostCalls(Len(ports)) \o <<<<"update", "dh", 0>>>>
                /\ nupd = nreq
          /\ pc = "request" => nsleep = (IF delay > 0 THEN nupd ELSE 0)
    /\ pc = "done" => (~reported /\ calls = <<<<"request_prices", "dh", 0>>>>)

\* C14 witness: the flag was cleared while the first of two queued events
\* was handled; the second one has been taken from the queue all the same.
C14_Witness ==
    /\ Cleared
    /\ pc = "dispatch"
    /\ Len(disp) = 2
    /\ disp[1].ph = "post"
    /\ disp[2].ph = "request"

\* The engine is about to call sleep(delay).
StartsSleep == pc = "delay" /\ delay > 0

\* C15 as stated: whenever the engine starts sleep(delay) the queue is
\* empty, also when process_post_events() or update() may enqueue events.
C15_Original == StartsSleep => events = <<>>

\* C15 amended: whenever the engine starts sleep(delay), the period's drain
\* is complete: every event enqueued before the post-period hooks started has
\* been dispatched, and the queue holds exactly the events that this period's
\* process_post_events() and update() calls enqueued, so it is empty only if
\* they enqueued none.
C15_SleepAfterDrain ==
    StartsSleep =>
        /\ \A k \in 1..Len(events) :
              events[k].per = nreq /\ events[k].ph \in {"post", "update"}
        /\ \A k \in 1..Len(enq) :
              IF enq[k].per = nreq /\ enq[k].ph \in {"post", "update"}
              THEN enq[k] \in Range(events)
              ELSE <<enq[k].id, enq[k].kind>> \in Range(handled)

\* C15 witness: the engine starts sleep(delay) with two events on the queue,
\* one from a post-period hook and one from update().
C15_Witness ==
    /\ StartsSleep
    /\ Len(events) = 2
    /\ events[1].ph = "post"
    /\ events[2].ph = "update"

\* Number of Market events whose dispatch branch has been entered.
MarketsHandled ==
    Cardinality({k \in 1..Len(handled) : handled[k][2] = "market"})

\* The position in fh.portfolios of the portfolio registered under pid: it
\* carries that id, and no portfolio after it does.
Registered(pid) ==
    CHOOSE k \in 1..Len(ports) :
        ports[k] = pid /\ \A m \in (k + 1)..Len(ports) : ports[m] # pid

\* C16: the dispatch of a Signal (Fill) event whose portfolio_id resolves
\* makes one collaborator call, process_signal_event (process_fill_event) on
\* the portfolio registered under that id; Order makes the one call
\* execute_order, Rebalance the one call rebalance(), Management the one call
\* manage(): no other portfolio, strategy or handler is invoked, and no
\* portfolio or strategy receives a market update.
C16_OnlyTheTarget ==
    (pc = "emit" /\ e.kind # "market") =>
        /\ calls =
              <<CASE e.kind = "signal" ->
                       <<"process_signal_event", "port", Registered(e.pid)>>
                  [] e.kind = "fill" ->
                       <<"process_fill_event", "port", Registered(e.pid)>>
                  [] e.kind = "order" -> <<"execute_order", "eh", 0>>
                  [] e.kind = "rebalance" -> <<"rebalance", "fh", 0>>
                  [] e.kind = "management" -> <<"manage", "fh", 0>>>>
        /\ \A k \in 1..Len(ports) : pmes[k] \in {0, MarketsHandled}
        /\ \A k \in 1..nstrats : gens[k] \in {0, MarketsHandled}

\* C16 witness: a Fill event for portfolio "b" of the fund <<"a", "b">> has
\* been delivered.
C16_Witness ==
    /\ pc = "emit"
    /\ e.kind = "fill"
    /\ e.pid = "b"
    /\ ports = <<"a", "b">>
    /\ nstrats = 2

\* No dispatch is going on: every Market event taken so far has been handled
\* to the end.
BetweenDispatches ==
    pc \in {"request", "check", "drain", "post", "delay", "done"}

\* C18 as stated: for any portfolios and strategies lists, also of unequal
\* length, every Portfolio that gets process_post_events() has received
\* process_market_event once for every Market event dispatched, and every
\* Strategy has had generate_signals() called once per Market event.  (The
\* counts are those of the run; they agree at every period's end if and only
\* if they agree period by period.)
C18_Original ==
    pc \in {"post", "delay"} =>
        /\ \A k \in 1..Len(ports) : pmes[k] = MarketsHandled
        /\ \A k \in 1..nstrats : gens[k] = MarketsHandled

\* C18 amended: the Portfolios and Strategies at the positions that both
\* lists have (the first min(len(portfolios), len(strategies)) of each)
\* receive process_market_event, respectively generate_signals(), exactly
\* once per dispatched Market event; a Portfolio or Strategy beyond the
\* shorter list receives none, although every Portfolio gets
\* process_post_events().  For lists of equal length this is the claim as
\* stated.
C18_ZippedPairsOnly ==
    BetweenDispatches =>
        /\ \A k \in 1..Len(ports) :
              pmes[k] = (IF k <= Min(nstrats, Len(ports)) THEN MarketsHandled ELSE 0)
        /\ \A k \in 1..nstrats :
              gens[k] = (IF k <= Min(nstrats, Len(ports)) THEN MarketsHandled ELSE 0)
        /\ pc = "delay" =>
              \A k \in 1..Len(ports) : PostCall(k) \in Range(calls)

\* C18 witness: a fund with two portfolios and one strategy ends a period
\* in which a Market event was dispatched: the second portfolio gets its
\* post-period hook without having seen the Market event.
C18_Witness ==
    /\ pc = "delay"
    /\ Len(ports) = 2
    /\ nstrats = 1
    /\ MarketsHandled = 1
    /\ pmes = <<1, 0>>

\* C19: termination: when the data handler reports continue_trading false
\* after finitely many request_prices() calls, every collaborator call
\* returns and every period's cascade is finite (here: at most MaxPeriods
\* requests and MaxEvents events), trade() eventually ends, by returning or,
\* on an invalid event, by raising.  The drain loop has no bound of its own:
\* as long as the queue is not empty its only step is to take the next
\* event, so the period cannot close.
C19_Termination ==
    /\ <>(pc \in {"done", "error"})
    /\ [][(pc = "drain" /\ ~QueueEmpty(events)) => pc' = "dispatch"]_vars

\* C19 witness: trade() has returned after a period whose cascade (an event
\* enqueued by the handler of another) was drained to the end.
C19_Witness ==
    /\ pc = "done"
    /\ Len(enq) = 2
    /\ enq[1].ph = "request"
    /\ enq[2].ph = "drain"
    /\ Len(handled) = 2

\* C20: period counting: the number of request_prices() calls minus the
\* number of update() calls is always 0 or 1 (1 from the request up to the
\* period's update(), 0 from there to the next request); every outer
\* iteration makes exactly one request_prices() call, followed by its one
\* read of the flag; when trade() returns normally there is exactly one more
\* request_prices() call than update() calls.
C20_PeriodCounting ==
    /\ nreq - nupd \in {0, 1}
    /\ (nreq - nupd = 0) <=> (pc \in {"start", "request", "delay"})
    /\ nreq = nread + (IF pc = "check" THEN 1 ELSE 0)
    /\ pc = "done" => nreq = nupd + 1

\* C20 witness: trade() has returned on its second request_prices(), after
\* one update().
C20_Witness ==
    /\ pc = "done"
    /\ nreq = 2
    /\ nupd = 1
    /\ delay = 0

====
